---- MODULE Spec2Model ----
(***************************************************************************)
(* streamparse/cli/common.py: the argparse action _StoreDictAction with    *)
(* the flags that share dest "options", and resolve_options, the merge of  *)
(* CLI, topology and environment options.                                  *)
(*                                                                         *)
(* Python values are tagged records.  A str is a sequence of atoms (an     *)
(* atom stands for a run of characters that no operation here cuts: the    *)
(* separators "=", "," and "/" and the letters of str.lower are atoms of   *)
(* their own).  A dict is a function from str to values; dicts live in    *)
(* the heap and are referred to by Ref, so that aliasing and in-place      *)
(* mutation are visible.                                                   *)
(***************************************************************************)
EXTENDS Integers, Sequences, FiniteSets, TLC

VARIABLES
    heap,           \* sequence of dict objects; Ref(i) refers to heap[i]
    cli_options,    \* resolve_options argument: None or a Ref
    local_only,     \* resolve_options argument
    topology_name,  \* resolve_options argument
    storm_options,  \* the dict resolve_options returned (NoDict before a return)
    derived,        \* storm_options as it stood once the environment was read
    raised,         \* name of the exception that ended the last call, or "none"
    nimbus,         \* get_storm_workers answer in the last call, or NotCalled
    pc,             \* "start" | "done" (resolve_options), "parse" | "crashed" (argparse)
    namespace,      \* argparse namespace: [options |-> None or a Ref]
    history         \* occurrences of the dest "options" flags processed so far

vars == <<heap, cli_options, local_only, topology_name, storm_options, derived, raised,
          nimbus, pc, namespace, history>>

-----------------------------------------------------------------------------
(* Python values *)

None == [t |-> "none"]
PyBool(b) == [t |-> "bool", v |-> b]
PyInt(n) == [t |-> "int", v |-> n]
PyStr(s) == [t |-> "str", v |-> s]
PyList(l) == [t |-> "list", v |-> l]
Ref(i) == [t |-> "ref", v |-> i]

\* a str of one atom
S(a) == <<a>>

EmptyDict == <<>>

\* bool(v): the truth value Python gives v
Truthy(v) ==
    CASE v.t = "none" -> FALSE
      [] v.t = "bool" -> v.v
      [] v.t = "int" -> v.v # 0
      [] v.t = "str" -> Len(v.v) > 0
      [] v.t = "list" -> Len(v.v) > 0
      [] v.t = "ref" -> DOMAIN heap[v.v] # {}

\* a or b
PyOr(a, b) == IF Truthy(a) THEN a ELSE b

\* isinstance(v, int): bool is a subclass of int
IsInstanceInt(v) == v.t \in {"int", "bool"}

\* isinstance(v, str)
IsInstanceStr(v) == v.t = "str"

\* d.get(k, default)
Get(d, k, default) == IF k \in DOMAIN d THEN d[k] ELSE default

\* d.update(e), as the new contents of d
Update(d, e) ==
    [k \in (DOMAIN d) \cup (DOMAIN e) |-> IF k \in DOMAIN e THEN e[k] ELSE d[k]]

\* d[k] = v, as the new contents of d
SetItem(d, k, v) == Update(d, [x \in {k} |-> v])

\* d.setdefault(k, v), as the new contents of d
SetDefault(d, k, v) == IF k \in DOMAIN d THEN d ELSE SetItem(d, k, v)

-----------------------------------------------------------------------------
(* str methods *)

UpperCase == <<"D", "E", "B", "U", "G", "I", "N", "F", "O", "W", "A", "R">>
LowerCase == <<"d", "e", "b", "u", "g", "i", "n", "f", "o", "w", "a", "r">>

LowerAtom(a) ==
    IF \E i \in 1..Len(UpperCase) : UpperCase[i] = a
    THEN LowerCase[CHOOSE i \in 1..Len(UpperCase) : UpperCase[i] = a]
    ELSE a

\* s.lower()
Lower(s) == [i \in 1..Len(s) |-> LowerAtom(s[i])]

\* index of the first sep in s, 0 when there is none
Find(s, sep) ==
    IF \E i \in 1..Len(s) : s[i] = sep
    THEN CHOOSE i \in 1..Len(s) : s[i] = sep /\ \A j \in 1..(i - 1) : s[j] # sep
    ELSE 0

\* s.split(sep): every piece, empty ones included
RECURSIVE Split(_, _)
Split(s, sep) ==
    IF Find(s, sep) = 0 THEN <<s>>
    ELSE <<SubSeq(s, 1, Find(s, sep) - 1)>>
         \o Split(SubSeq(s, Find(s, sep) + 1, Len(s)), sep)

\* s.split(sep, 1): at most one cut, at the first sep
SplitOnce(s, sep) ==
    IF Find(s, sep) = 0 THEN <<s>>
    ELSE <<SubSeq(s, 1, Find(s, sep) - 1), SubSeq(s, Find(s, sep) + 1, Len(s))>>

\* sep.join(parts)
RECURSIVE Join(_, _)
Join(sep, parts) ==
    IF Len(parts) = 0 THEN <<>>
    ELSE IF Len(parts) = 1 THEN parts[1]
    ELSE parts[1] \o <<sep>> \o Join(sep, Tail(parts))

-----------------------------------------------------------------------------
(* resolve_options *)

\* the dict objects resolve_options is handed, in heap order
Objects == <<"env_config", "options", "log", "config", "cli_options">>

Id(name) == CHOOSE i \in 1..Len(Objects) : Objects[i] = name

Deref(r) == heap[r.v]

\* d.get(k, {}) where d[k], if present, is a dict
GetDict(d, k) == IF k \in DOMAIN d THEN Deref(d[k]) ELSE EmptyDict

VIRTUALENV_OPTIONS ==
    {S("install_virtualenv"), S("use_virtualenv"), S("virtualenv_flags"),
     S("virtualenv_root"), S("virtualenv_name")}

\* marks "a new dict object", as opposed to an object of the heap
Fresh == 0

\* storm_options = {}: the object the function fills and returns.
\* The variant binds it to env_config's own "options" dict when there is one.
AliasedStormOptionsObject(env) ==
    IF S("options") \in DOMAIN env THEN env[S("options")].v ELSE Fresh

StormOptionsObject(env) == Fresh

\* storm_options.update(env_config.get("options", {}))
EnvironmentOptions(env) == Update(EmptyDict, GetDict(env, S("options")))

\* env_config.get("use_virtualenv", True)
UsesVirtualenv(env) == Truthy(Get(env, S("use_virtualenv"), PyBool(TRUE)))

\* env_config["virtualenv_root"] raises KeyError
MissingVirtualenvRoot(env) ==
    UsesVirtualenv(env) /\ S("virtualenv_root") \notin DOMAIN env

PythonPath(env, name) ==
    Join("/", <<env[S("virtualenv_root")].v, name, S("bin"), S("python")>>)

SetPythonPath(so, env, name) ==
    IF UsesVirtualenv(env)
    THEN SetItem(so, S("topology.python.path"), PyStr(PythonPath(env, name)))
    ELSE so

\* log_config.get(k) or env_config.get(legacy)
LegacyFirstLogSetting(env, k, legacy) ==
    PyOr(Get(env, legacy, None), Get(GetDict(env, S("log")), k, None))

LogSetting(env, k, legacy) ==
    PyOr(Get(GetDict(env, S("log")), k, None), Get(env, legacy, None))

LogLevel(v) == PyStr(Lower(v.v))

SetLogOptions(so, env) ==
    LET log_config == GetDict(env, S("log"))
        log_path == LogSetting(env, S("path"), S("log_path"))
        log_file == LogSetting(env, S("file"), S("log_file"))
        s1 == IF Truthy(log_path) THEN SetItem(so, S("pystorm.log.path"), log_path) ELSE so
        s2 == IF Truthy(log_file) THEN SetItem(s1, S("pystorm.log.file"), log_file) ELSE s1
        s3 == IF IsInstanceInt(Get(log_config, S("max_bytes"), None))
              THEN SetItem(s2, S("pystorm.log.max_bytes"), log_config[S("max_bytes")])
              ELSE s2
        s4 == IF IsInstanceInt(Get(log_config, S("backup_count"), None))
              THEN SetItem(s3, S("pystorm.log.backup_count"), log_config[S("backup_count")])
              ELSE s3
    IN  IF IsInstanceStr(Get(log_config, S("level"), None))
        THEN SetItem(s4, S("pystorm.log.level"), LogLevel(log_config[S("level")]))
        ELSE s4

SetVirtualenvOptions(so, env) ==
    Update(so, [k \in VIRTUALENV_OPTIONS \cap DOMAIN env |-> env[k]])

\* storm_options["sudo_user"] = env_config.get("user", None)
SetSudoUser(so, env) == SetItem(so, S("sudo_user"), Get(env, S("user"), None))

\* storm_options after the environment has been read, before the overrides
FromEnvironment(env, name) ==
    SetSudoUser(
        SetVirtualenvOptions(
            SetLogOptions(SetPythonPath(EnvironmentOptions(env), env, name), env),
            env),
        env)

\* the variant lets the topology win over the command line
OverridesSwapped(so, config, cli) ==
    Update(Update(so, IF cli.t = "ref" THEN Deref(cli) ELSE EmptyDict), config)

\* the variant lets what the environment gave win over the topology
OverridesUnderEnvironment(so, config, cli) ==
    Update(Update(config, so), IF Truthy(cli) THEN Deref(cli) ELSE EmptyDict)

\* storm_options.update(topology_class.config);
\* storm_options.update(cli_options or {})
Overrides(so, config, cli) ==
    Update(Update(so, config), IF Truthy(cli) THEN Deref(cli) ELSE EmptyDict)

DEBUG == <<"d", "e", "b", "u", "g">>

SetDebugLevel(so) ==
    IF Truthy(Get(so, S("topology.debug"), PyBool(FALSE)))
    THEN SetItem(so, S("pystorm.log.level"), PyStr(DEBUG))
    ELSE so

\* the variant asks Nimbus whatever local_only says
CallsNimbusIgnoringLocalOnly(so, local) ==
    ~Truthy(Get(so, S("storm.workers.list"), None))

\* whether get_storm_workers(env_config) is called
CallsNimbus(so, local) ==
    ~local /\ ~Truthy(Get(so, S("storm.workers.list"), None))

SetWorkersList(so, local, answer) ==
    IF ~local
    THEN IF CallsNimbus(so, local)
         THEN SetItem(so, S("storm.workers.list"), PyList(answer))
         ELSE IF IsInstanceStr(so[S("storm.workers.list")])
              THEN SetItem(so, S("storm.workers.list"),
                           PyList(Split(so[S("storm.workers.list")].v, ",")))
              ELSE so
    ELSE SetItem(so, S("storm.workers.list"), PyList(<<>>))

NumStormWorkers(so, local) ==
    IF ~local THEN Len(so[S("storm.workers.list")].v) ELSE 1

\* the variant tests "not value" in place of "value is None"
IsUnsetOrFalsy(so, k) == ~Truthy(Get(so, k, None))

\* storm_options.get(k) is None
IsUnset(so, k) == Get(so, k, None) = None

SetWorkerCounts(so, n) ==
    LET s1 == IF IsUnset(so, S("topology.acker.executors"))
              THEN SetItem(so, S("topology.acker.executors"), PyInt(n))
              ELSE so
    IN  IF IsUnset(s1, S("topology.workers"))
        THEN SetItem(s1, S("topology.workers"), PyInt(n))
        ELSE s1

\* storm_options.setdefault("sudo_user", "root")
SetSudoUserRoot(so) == SetDefault(so, S("sudo_user"), PyStr(S("root")))

\* storm_options just before the worker list is settled
Merged(cli, env, config, name) ==
    SetDebugLevel(Overrides(FromEnvironment(env, name), config, cli))

\* the dict resolve_options returns when it returns
resolve_options(cli, env, config, name, local, answer) ==
    LET merged == Merged(cli, env, config, name)
        listed == SetWorkersList(merged, local, answer)
    IN  SetSudoUserRoot(SetWorkerCounts(listed, NumStormWorkers(listed, local)))

-----------------------------------------------------------------------------
(* the arguments resolve_options is called with *)

MaxEntries == 2
MaxWorkers == 2

Absent == [t |-> "absent"]
NoDict == [t |-> "nodict"]
NotCalled == [t |-> "notcalled"]

Hosts == <<S("h1"), S("h2"), S("h3"), S("h4")>>

\* what get_storm_workers may answer: the worker hosts Nimbus knows of
StormWorkerAnswers == {SubSeq(Hosts, 1, n) : n \in 0..MaxWorkers}

\* key/value pairs a Storm option source (CLI, topology, env options) may hold
OptionChoices ==
    {<<S("topology.workers"), None>>, <<S("topology.workers"), PyInt(2)>>,
     <<S("topology.acker.executors"), None>>,
     <<S("topology.acker.executors"), PyInt(0)>>,
     <<S("topology.debug"), PyBool(TRUE)>>, <<S("topology.debug"), PyBool(FALSE)>>,
     <<S("pystorm.log.level"), PyStr(<<"i", "n", "f", "o">>)>>,
     <<S("storm.workers.list"), PyStr(<<"h1", ",", "h2", ",", "h3">>)>>,
     <<S("storm.workers.list"), PyList(<<S("h1")>>)>>,
     <<S("storm.workers.list"), PyList(<<>>)>>,
     <<S("sudo_user"), None>>, <<S("sudo_user"), PyStr(S("storm"))>>,
     <<S("topology.python.path"), PyStr(<<"/", "usr", "/", "bin", "/", "python">>)>>,
     <<S("virtualenv_root"), PyStr(<<"/", "opt">>)>>}

\* top-level entries of env_config; Absent removes the key
EnvChoices ==
    {<<S("user"), PyStr(S("deploy"))>>,
     <<S("use_virtualenv"), PyBool(FALSE)>>,
     <<S("virtualenv_root"), Absent>>,
     <<S("virtualenv_name"), PyStr(S("venv"))>>,
     <<S("log_path"), PyStr(<<"/", "legacy">>)>>,
     <<S("log_file"), PyStr(S("legacy.log"))>>}

\* entries of env_config["log"]
LogChoices ==
    {<<S("path"), PyStr(<<>>)>>, <<S("path"), PyStr(<<"/", "var", "/", "log">>)>>,
     <<S("file"), PyStr(S("topology.log"))>>,
     <<S("max_bytes"), PyInt(10)>>, <<S("max_bytes"), PyBool(TRUE)>>,
     <<S("max_bytes"), PyStr(<<"1", "0">>)>>,
     <<S("backup_count"), PyInt(1)>>,
     <<S("level"), PyStr(<<"W", "a", "r", "n">>)>>,
     <<S("level"), PyInt(1)>>}

Entry(src, p) == [src |-> src, key |-> p[1], val |-> p[2]]

Entries ==
    {Entry(src, p) : src \in {"cli_options", "config", "options"}, p \in OptionChoices}
    \cup {Entry("env_config", p) : p \in EnvChoices}
    \cup {Entry("log", p) : p \in LogChoices}

\* no key is given twice in one dict
Consistent(es) ==
    \A e1 \in es, e2 \in es : (e1.src = e2.src /\ e1.key = e2.key) => e1 = e2

RECURSIVE EntrySets(_)
EntrySets(n) ==
    IF n = 0 THEN {{}}
    ELSE LET smaller == EntrySets(n - 1)
         IN  smaller \cup
             {es \cup {e} : es \in smaller, e \in Entries}

Of(es, src) == {e \in es : e.src = src}

\* the dict the entries of one source spell out
DictOf(es, src) ==
    [k \in {e.key : e \in {x \in Of(es, src) : x.val # Absent}} |->
        (CHOOSE e \in Of(es, src) : e.key = k).val]

VirtualenvRoot == <<"/", "data", "/", "virtualenvs">>

\* a working env_config (virtualenv_root set), edited by the entries
EnvConfigOf(es) ==
    LET base == IF \E e \in Of(es, "env_config") : e.key = S("virtualenv_root")
                THEN EmptyDict
                ELSE [k \in {S("virtualenv_root")} |-> PyStr(VirtualenvRoot)]
        nested == [k \in {S(src) : src \in {x \in {"options", "log"} : Of(es, x) # {}}} |->
                      Ref(Id(k[1]))]
    IN  Update(Update(base, DictOf(es, "env_config")), nested)

HeapOf(es) == [i \in 1..Len(Objects) |->
                  IF Objects[i] = "env_config" THEN EnvConfigOf(es)
                  ELSE DictOf(es, Objects[i])]

Init ==
    /\ \E es \in EntrySets(MaxEntries), none \in BOOLEAN :
          /\ Consistent(es)
          /\ none => Of(es, "cli_options") = {}
          /\ heap = HeapOf(es)
          /\ cli_options = IF none THEN None ELSE Ref(Id("cli_options"))
    /\ local_only \in BOOLEAN
    /\ topology_name = S("wordcount")
    /\ storm_options = NoDict
    /\ derived = NoDict
    /\ raised = "none"
    /\ nimbus = NotCalled
    /\ pc = "start"
    /\ namespace = [options |-> None]
    /\ history = <<>>

\* one call of resolve_options(cli_options, env_config, topology_class,
\* topology_name, local_only); a caller may call again with the same arguments
ResolveOptions ==
    /\ pc \in {"start", "done"}
    /\ pc' = "done"
    /\ LET env == heap[Id("env_config")]
           config == heap[Id("config")]
       IN  IF MissingVirtualenvRoot(env)
           THEN /\ raised' = "KeyError"
                /\ storm_options' = NoDict
                /\ derived' = NoDict
                /\ nimbus' = NotCalled
                /\ heap' = heap
           ELSE LET merged == Merged(cli_options, env, config, topology_name)
                    asked == CallsNimbus(merged, local_only)
                IN  \E answer \in IF asked THEN StormWorkerAnswers ELSE {<<>>} :
                    LET result == resolve_options(cli_options, env, config,
                                                  topology_name, local_only, answer)
                        object == StormOptionsObject(env)
                    IN  /\ raised' = "none"
                        /\ storm_options' = result
                        /\ derived' = FromEnvironment(env, topology_name)
                        /\ nimbus' = IF asked THEN PyList(answer) ELSE NotCalled
                        /\ heap' = IF object = Fresh THEN heap
                                   ELSE [heap EXCEPT ![object] = result]
    /\ UNCHANGED <<cli_options, local_only, topology_name, namespace, history>>

Next == ResolveOptions

Spec == Init /\ [][Next]_vars

-----------------------------------------------------------------------------
(* properties of resolve_options *)

Env == heap[Id("env_config")]
Config == heap[Id("config")]
Options == GetDict(Env, S("options"))
Log == GetDict(Env, S("log"))
Cli == IF cli_options = None THEN EmptyDict ELSE Deref(cli_options)

\* the last call returned a dict
Returned == pc = "done" /\ raised = "none"

\* what the three option sources give for k, by precedence; None when none does
Given(k) ==
    IF k \in DOMAIN Cli THEN Cli[k]
    ELSE IF k \in DOMAIN Config THEN Config[k]
    ELSE IF k \in DOMAIN Options THEN Options[k]
    ELSE None

WorkerCountKeys == {S("topology.workers"), S("topology.acker.executors")}

\* the value a source's entry v for key k must have in the result: v itself,
\* but for the keys resolve_options settles after the merge
Settled(k, v) ==
    IF k = S("pystorm.log.level")
    THEN storm_options[k] = IF Truthy(Given(S("topology.debug"))) THEN PyStr(DEBUG) ELSE v
    ELSE IF k = S("storm.workers.list")
    THEN (~local_only /\ v.t = "list" /\ Truthy(v)) => storm_options[k] = v
    ELSE IF k \in WorkerCountKeys
    THEN v # None => storm_options[k] = v
    ELSE storm_options[k] = v

\* C1 as stated: every key of cli_options is returned with its CLI value.
C1_CliAlwaysWins ==
    Returned => \A k \in DOMAIN Cli : storm_options[k] = Cli[k]

\* C1, amended: every key of cli_options is returned with its CLI value, except
\* pystorm.log.level (forced to "debug" when topology.debug is truthy),
\* storm.workers.list (kept only when local_only is false and it is a non-empty
\* list) and a worker count given as None (replaced by the default).
C1_CliWinsButSettledKeys ==
    Returned => \A k \in DOMAIN Cli : k \in DOMAIN storm_options /\ Settled(k, Cli[k])

C1_Witness ==
    /\ Returned
    /\ \E k \in (DOMAIN Cli) \cap (DOMAIN Config) :
          Cli[k] # Config[k] /\ storm_options[k] = Cli[k]

\* C2 as stated: every key of the topology config that the CLI does not give
\* is returned with its topology value.
C2_TopologyAlwaysWins ==
    Returned => \A k \in (DOMAIN Config) \ (DOMAIN Cli) : storm_options[k] = Config[k]

\* C2, amended: every key of the topology config that the CLI does not give is
\* returned with its topology value, whatever the environment gives or derives
\* for it, with the same exceptions as for CLI keys (pystorm.log.level under
\* topology.debug, storm.workers.list, a worker count given as None).
C2_TopologyWinsOverEnvironment ==
    Returned =>
        \A k \in (DOMAIN Config) \ (DOMAIN Cli) :
            k \in DOMAIN storm_options /\ Settled(k, Config[k])

C2_Witness ==
    /\ Returned
    /\ \E k \in (DOMAIN Config) \ (DOMAIN Cli) :
          /\ k \in DOMAIN derived
          /\ derived[k] # Config[k]
          /\ storm_options[k] = Config[k]

\* C3: when neither cli_options nor the topology config has sudo_user and
\* env_config has no user, the returned sudo_user is "root".
C3_SudoUserDefaultsToRoot ==
    (/\ Returned
     /\ S("sudo_user") \notin (DOMAIN Cli) \cup (DOMAIN Config)
     /\ S("user") \notin DOMAIN Env)
    => storm_options[S("sudo_user")] = PyStr(S("root"))

\* C4: a worker count that the sources leave absent or None becomes the number
\* of worker nodes (the length of the returned storm.workers.list, or 1 when
\* local_only); a non-None value is returned unchanged; both keys are always
\* present and not None.
C4_WorkerCountDefaults ==
    Returned =>
        \A k \in WorkerCountKeys :
            /\ k \in DOMAIN storm_options
            /\ storm_options[k] # None
            /\ Given(k) # None => storm_options[k] = Given(k)
            /\ Given(k) = None =>
                  storm_options[k] =
                      PyInt(IF local_only THEN 1
                            ELSE Len(storm_options[S("storm.workers.list")].v))

C4_Witness ==
    /\ Returned
    /\ ~local_only
    /\ Given(S("topology.workers")) = None
    /\ Given(S("topology.acker.executors")) = PyInt(0)
    /\ storm_options[S("topology.workers")] = PyInt(2)
    /\ storm_options[S("topology.acker.executors")] = PyInt(0)

\* C5: a returning call asks Nimbus exactly when local_only is false and the
\* merged storm.workers.list is absent or empty; with local_only the returned
\* list is empty; without it the returned value is a list, the Nimbus answer
\* when asked, and the comma-separated pieces of a string that a source gave.
C5_NimbusOnlyWhenNeeded ==
    Returned =>
        LET given == Given(S("storm.workers.list"))
            list == storm_options[S("storm.workers.list")]
        IN  /\ nimbus # NotCalled <=> (~local_only /\ ~Truthy(given))
            /\ local_only => list = PyList(<<>>)
            /\ ~local_only => list.t = "list"
            /\ nimbus # NotCalled => list = nimbus
            /\ (~local_only /\ given.t = "str" /\ Truthy(given)) =>
                  /\ Join(",", list.v) = given.v
                  /\ \A i \in 1..Len(list.v) : Find(list.v[i], ",") = 0

C5_Witness ==
    /\ Returned
    /\ ~local_only
    /\ Given(S("storm.workers.list")).t = "str"
    /\ nimbus = NotCalled
    /\ storm_options[S("storm.workers.list")] = PyList(<<S("h1"), S("h2"), S("h3")>>)

\* the log setting the environment chooses: log[k] if non-empty, else the legacy key
Chosen(k, legacy) == IF Truthy(Get(Log, k, None)) THEN Log[k] ELSE Get(Env, legacy, None)

\* key k of the derived options is what env_config["options"] gave, if anything
LeftToOptions(k) == Get(derived, k, Absent) = Get(Options, k, Absent)

\* C8: before the topology and CLI overrides, pystorm.log.path (.file) is
\* log.path (log.file) if non-empty, else the legacy log_path (log_file), and
\* is set only when that is non-empty; max_bytes and backup_count are set only
\* from an int; level only from a str, lower-cased; what is set replaces the
\* same key of env_config["options"], what is not set leaves it alone.
C8_LogOptionsFromEnvironment ==
    Returned =>
        /\ \A p \in {<<S("pystorm.log.path"), S("path"), S("log_path")>>,
                     <<S("pystorm.log.file"), S("file"), S("log_file")>>} :
              IF Truthy(Chosen(p[2], p[3]))
              THEN p[1] \in DOMAIN derived /\ derived[p[1]] = Chosen(p[2], p[3])
              ELSE LeftToOptions(p[1])
        /\ \A p \in {<<S("pystorm.log.max_bytes"), S("max_bytes")>>,
                     <<S("pystorm.log.backup_count"), S("backup_count")>>} :
              IF Get(Log, p[2], None).t \in {"int", "bool"}
              THEN p[1] \in DOMAIN derived /\ derived[p[1]] = Log[p[2]]
              ELSE LeftToOptions(p[1])
        /\ IF Get(Log, S("level"), None).t = "str"
           THEN /\ S("pystorm.log.level") \in DOMAIN derived
                /\ derived[S("pystorm.log.level")] = PyStr(Lower(Log[S("level")].v))
           ELSE LeftToOptions(S("pystorm.log.level"))

C8_Witness ==
    /\ Returned
    /\ Get(Log, S("level"), None) = PyStr(<<"W", "a", "r", "n">>)
    /\ Get(Options, S("pystorm.log.level"), None) = PyStr(<<"i", "n", "f", "o">>)
    /\ derived[S("pystorm.log.level")] = PyStr(<<"w", "a", "r", "n">>)

\* the answer the last call got from Nimbus, if it asked
AnswerUsed == IF nimbus = NotCalled THEN <<>> ELSE nimbus.v

-----------------------------------------------------------------------------
(* _StoreDictAction and the flags with dest "options" *)

MaxArgs == 3

Digits == <<"0", "1", "2", "3", "4", "5", "6", "7", "8", "9">>

IsDecimal(s) ==
    /\ Len(s) > 0
    /\ \A i \in 1..Len(s) : \E d \in 1..Len(Digits) : Digits[d] = s[i]
    /\ Len(s) > 1 => s[1] # "0"

DigitValue(a) == (CHOOSE d \in 1..Len(Digits) : Digits[d] = a) - 1

RECURSIVE Decimal(_)
Decimal(s) ==
    IF Len(s) = 0 THEN 0
    ELSE 10 * Decimal(SubSeq(s, 1, Len(s) - 1)) + DigitValue(s[Len(s)])

\* yaml.YAML(typ="safe", pure=True).load(val) / yaml.safe_load(val) of a plain
\* scalar without indicator characters: null, bool, int, else str
YamlLoad(val) ==
    IF val \in {<<>>, S("~"), S("null"), S("Null"), S("NULL")} THEN None
    ELSE IF val \in {S("true"), S("True"), S("TRUE")} THEN PyBool(TRUE)
    ELSE IF val \in {S("false"), S("False"), S("FALSE")} THEN PyBool(FALSE)
    ELSE IF IsDecimal(val) THEN PyInt(Decimal(val))
    ELSE PyStr(val)

\* the variant leaves the option name out
OptionAliasValueOnly(option, val) == val

\* option_alias(option)(val): f"{option}={val}"
option_alias(option, val) == option \o <<"=">> \o val

\* the variant updates the held dict in place
HeldItemsObject(h, held) == held.v

\* items = copy.copy(getattr(namespace, self.dest)): a new object
ItemsObject(h, held) == Len(h) + 1

\* an occurrence of a flag on the command line; given = FALSE: no value follows
Occurrence(flag, given, arg) == [flag |-> flag, given |-> given, arg |-> arg]

\* _StoreDictAction.__call__(parser, namespace, values)
StoreDictAction(values) ==
    LET held == namespace.options
        h1 == IF held = None THEN Append(heap, EmptyDict) ELSE heap
        cur == IF held = None THEN Ref(Len(h1)) ELSE held
        items == ItemsObject(h1, cur)
        h2 == IF items > Len(h1) THEN Append(h1, h1[cur.v]) ELSE h1
        kv == SplitOnce(values, "=")
    IN  /\ IF Len(kv) # 2
           THEN /\ raised' = "ValueError"
                /\ pc' = "crashed"
                /\ heap' = h2
                /\ namespace' = [options |-> cur]
           ELSE /\ raised' = raised
                /\ pc' = pc
                /\ heap' = [h2 EXCEPT ![items] = SetItem(@, kv[1], YamlLoad(kv[2]))]
                /\ namespace' = [options |-> Ref(items)]
        /\ UNCHANGED <<cli_options, local_only, topology_name, storm_options,
                       derived, nimbus>>

\* what may follow -o / --option
OptionArgs ==
    {<<"topology.debug", "=", "true">>, <<"topology.debug", "=", "false">>,
     <<"topology.workers", "=", "3">>, <<"topology.workers", "=">>,
     <<"sudo_user", "=", "storm">>, <<"x", "=", "y", "=", "z">>,
     <<"topology.debug">>}

\* what may follow --ackers, --workers, --user and, optionally, --debug
AliasArgs == {S("2"), S("false"), S("storm"), <<"1", "0">>}

\* argparse meets one more flag of dest "options" and calls its action
Meets(occurrence) ==
    /\ pc = "parse"
    /\ Len(history) < MaxArgs
    /\ history' = Append(history, occurrence)

\* -o, --option (add_options)
Option ==
    \E arg \in OptionArgs :
        /\ Meets(Occurrence("--option", TRUE, arg))
        /\ StoreDictAction(arg)

\* -a, --ackers (add_ackers)
Ackers ==
    \E arg \in AliasArgs :
        /\ Meets(Occurrence("--ackers", TRUE, arg))
        /\ StoreDictAction(option_alias(S("topology.acker.executors"), arg))

\* const="true" of --debug
DebugConst == S("true")

\* -d, --debug (add_debug): nargs="?", so the value may be missing, and then
\* argparse passes const through type
Debug ==
    \/ /\ Meets(Occurrence("--debug", FALSE, <<>>))
       /\ StoreDictAction(option_alias(S("topology.debug"), DebugConst))
    \/ \E arg \in AliasArgs :
          /\ Meets(Occurrence("--debug", TRUE, arg))
          /\ StoreDictAction(option_alias(S("topology.debug"), arg))

\* --user (add_user)
User ==
    \E arg \in AliasArgs :
        /\ Meets(Occurrence("--user", TRUE, arg))
        /\ StoreDictAction(option_alias(S("sudo_user"), arg))

\* -w, --workers (add_workers)
Workers ==
    \E arg \in AliasArgs :
        /\ Meets(Occurrence("--workers", TRUE, arg))
        /\ StoreDictAction(option_alias(S("topology.workers"), arg))

\* parse_args starts with the defaults: every flag of dest "options" has None
InitCli ==
    /\ heap = <<>>
    /\ namespace = [options |-> None]
    /\ history = <<>>
    /\ pc = "parse"
    /\ raised = "none"
    /\ cli_options = None
    /\ local_only = FALSE
    /\ topology_name = S("wordcount")
    /\ storm_options = NoDict
    /\ derived = NoDict
    /\ nimbus = NotCalled

NextCli == Option \/ Ackers \/ Debug \/ User \/ Workers

SpecCli == InitCli /\ [][NextCli]_vars

-----------------------------------------------------------------------------
(* properties of _StoreDictAction *)

\* the dict namespace.options holds; empty while it is None
OptionsDict == IF namespace.options = None THEN EmptyDict ELSE Deref(namespace.options)

\* the Storm option an alias flag stands for
AliasOf(flag) ==
    CASE flag = "--ackers" -> S("topology.acker.executors")
      [] flag = "--debug" -> S("topology.debug")
      [] flag = "--user" -> S("sudo_user")
      [] flag = "--workers" -> S("topology.workers")

\* the key an occurrence names: the text before the first "=" of -o's
\* argument, the option an alias flag stands for
KeyOf(o) ==
    IF o.flag = "--option" THEN SubSeq(o.arg, 1, Find(o.arg, "=") - 1)
    ELSE AliasOf(o.flag)

\* the value text of an occurrence: what follows the first "=" of -o's
\* argument, the argument of an alias flag, "true" for a bare --debug
TextOf(o) ==
    IF o.flag = "--option" THEN SubSeq(o.arg, Find(o.arg, "=") + 1, Len(o.arg))
    ELSE IF o.given THEN o.arg
    ELSE S("true")

\* the last occurrence naming key k
LastOf(k) ==
    history[CHOOSE i \in 1..Len(history) :
                /\ KeyOf(history[i]) = k
                /\ \A j \in (i + 1)..Len(history) : KeyOf(history[j]) # k]

\* the step processes occurrence o
Processes(o) == history' = Append(history, o)

\* C6: a bare --debug and -o topology.debug=true, met in the same namespace,
\* both leave namespace.options with topology.debug mapped to the boolean true
\* and every other key as it was.
C6_DebugFlagIsOptionDebugTrue ==
    [][\A o \in {Occurrence("--debug", FALSE, <<>>),
                 Occurrence("--option", TRUE, <<"topology.debug", "=", "true">>)} :
          Processes(o) =>
              /\ pc' = "parse"
              /\ namespace'.options # None
              /\ heap'[namespace'.options.v] =
                    [k \in (DOMAIN OptionsDict) \cup {S("topology.debug")} |->
                        IF k = S("topology.debug") THEN PyBool(TRUE) ELSE OptionsDict[k]]
      ]_vars

C6_Witness ==
    /\ pc = "parse"
    /\ Len(history) = 2
    /\ history[2] = Occurrence("--debug", FALSE, <<>>)
    /\ DOMAIN OptionsDict = {S("topology.debug"), S("sudo_user")}
    /\ OptionsDict[S("topology.debug")] = PyBool(TRUE)

\* C7: while parsing goes on, namespace.options holds exactly the keys of the
\* occurrences met, each with the parsed value of its last occurrence (None
\* before any occurrence); and no occurrence changes a dict object that
\* existed before it.
C7_OptionsAccumulate ==
    /\ [](pc = "parse" =>
            /\ namespace.options = None <=> history = <<>>
            /\ DOMAIN OptionsDict = {KeyOf(history[i]) : i \in 1..Len(history)}
            /\ \A k \in DOMAIN OptionsDict : OptionsDict[k] = YamlLoad(TextOf(LastOf(k))))
    /\ [][\A i \in 1..Len(heap) : heap'[i] = heap[i]]_vars

C7_Witness ==
    /\ pc = "parse"
    /\ Len(history) = 3
    /\ KeyOf(history[1]) = KeyOf(history[3])
    /\ KeyOf(history[2]) # KeyOf(history[1])
    /\ TextOf(history[1]) # TextOf(history[3])
    /\ Cardinality(DOMAIN OptionsDict) = 2
    /\ heap[namespace.options.v] # heap[Len(heap) - 1]

====
